---- MODULE Spec2Model ----
(***************************************************************************)
(* Model of confluence-docs-as-code: the tree builder of lib/context.js    *)
(* (getContext, traverse, getPage, createSectionPages,                     *)
(* inferSectionDirectory) and the reconciliation engine of                 *)
(* lib/confluence-syncer.js (sync, syncHome, findParentPage, syncPages /   *)
(* processLevel, cleanup, unpublish).                                      *)
(*                                                                         *)
(* File paths are sequences of one-character strings, so that indexOf,     *)
(* substring, startsWith, split and join act on characters exactly as the  *)
(* JavaScript string methods do.  Titles, section names and repository     *)
(* urls are atomic strings.  The JavaScript null / undefined of a section  *)
(* key or of a page id is the value null / NoId below.                     *)
(***************************************************************************)
EXTENDS Integers, Sequences, FiniteSets, TLC

\* ------------------------------------------------------------------------
\* Bounds of the model
\* ------------------------------------------------------------------------
\* number of sync / cleanup runs started in one behaviour
MaxRuns == 2
\* number of processLevel calls in progress at one time
MaxDepth == 4

\* ------------------------------------------------------------------------
\* Values
\* ------------------------------------------------------------------------
\* JavaScript null as a section key (parentSection / parentPath / Map key)
null == "<null>"
\* JavaScript undefined / absent remote id
NoId == 0
\* repo_url of the mkdocs.yml being synced, and a foreign repository
Repo == "repo"
OtherRepo == "other-repo"
\* site_name of mkdocs.yml
SiteName == "Site"
\* title configured as confluence.parentPage
AncestorTitle == "Ancestor"

\* ------------------------------------------------------------------------
\* Character strings
\* ------------------------------------------------------------------------
sep == <<"/">>
w_docs == <<"d", "o", "c", "s">>
w_guides == <<"g", "u", "i", "d", "e", "s">>
w_guides2 == <<"g", "u", "i", "d", "e", "s", "2">>
w_api == <<"a", "p", "i">>
w_intro_md == <<"i", "n", "t", "r", "o", ".", "m", "d">>
w_setup_md == <<"s", "e", "t", "u", "p", ".", "m", "d">>
w_a_md == <<"a", ".", "m", "d">>
w_b_md == <<"b", ".", "m", "d">>
README_MD == <<"R", "E", "A", "D", "M", "E", ".", "m", "d">>
\* the literal '/docs/' searched by inferSectionDirectory
DocsMarker == sep \o w_docs \o sep
\* path.dirname of a path without directory part
dot == <<".">>

\* String.prototype.startsWith
StartsWith(s, t) ==
    /\ Len(t) <= Len(s)
    /\ SubSeq(s, 1, Len(t)) = t

\* String.prototype.indexOf, 0-based, -1 when absent
IndexOf(s, t) ==
    LET hits == {i \in 0..(Len(s) - Len(t)) : SubSeq(s, i + 1, i + Len(t)) = t}
    IN  IF hits = {} THEN -1 ELSE CHOOSE i \in hits : \A j \in hits : i <= j

\* String.prototype.substring(from), 0-based from
Substring(s, from) == SubSeq(s, from + 1, Len(s))

\* positions (1-based) of the separator in s
SepPositions(s) == {i \in 1..Len(s) : s[i] = "/"}

\* path.dirname for relative paths without trailing separator
Dirname(s) ==
    LET ps == SepPositions(s)
    IN  IF ps = {} THEN dot
        ELSE LET last == CHOOSE i \in ps : \A j \in ps : j <= i
             IN  IF last = 1 THEN sep ELSE SubSeq(s, 1, last - 1)

\* number of parts of s.split(path.sep)
PartCount(s) == Cardinality(SepPositions(s)) + 1

\* s.split(path.sep).slice(0, len).join(path.sep): s cut before its len-th
\* separator, the whole of s when len is the number of parts
JoinParts(s, len) ==
    LET ps == SepPositions(s)
        upto == {i \in ps : Cardinality({j \in ps : j < i}) = len - 1}
    IN  IF upto = {} THEN s
        ELSE SubSeq(s, 1, (CHOOSE i \in upto : TRUE) - 1)

\* path.resolve(basePath, 'docs', p) made relative to process.cwd(), for the
\* default basePath '.' and a relative p free of '.', '..' and '//' segments
ResolveDocs(p) ==
    IF p = dot THEN w_docs ELSE w_docs \o sep \o p

\* path.resolve(basePath, 'docs', sectionDir, 'README.md') relative to cwd
ResolveReadme(sectionDir) == ResolveDocs(sectionDir) \o sep \o README_MD

\* ------------------------------------------------------------------------
\* Tree builder (lib/context.js)
\* ------------------------------------------------------------------------
\* A navigation entry {title: path} is Leaf(title, path), {title: [...]} is
\* Section(title, items), a bare string entry is Bare(path).
Leaf(title, p) == [kind |-> "leaf", title |-> title, path |-> p, items |-> <<>>]
Section(title, items) == [kind |-> "section", title |-> title, path |-> <<>>, items |-> items]
Bare(p) == [kind |-> "bare", title |-> "", path |-> p, items |-> <<>>]

\* new LocalPage(title, new Meta(repo, path, sha)); parentPath is not set yet
LocalPage(title, p) == [title |-> title, path |-> p, parentPath |-> null, repo |-> Repo]

\* `${titlePrefix} ${title}`.trim()
PrefixedTitle(prefix, title) ==
    IF prefix = "" THEN title ELSE prefix \o " " \o title

\* getPage: the page, as a sequence of length one, or the empty sequence
\* (with a warning) when the file does not exist
getPage(title, relPath, prefix, fs) ==
    IF relPath \notin fs THEN <<>>
    ELSE <<LocalPage(PrefixedTitle(prefix, title), relPath)>>

\* Map.prototype.set on the section hierarchy, kept in insertion order
HierarchySet(h, k, v) ==
    IF \E i \in DOMAIN h : h[i].name = k
    THEN [i \in DOMAIN h |-> IF h[i].name = k THEN [name |-> k, parent |-> v] ELSE h[i]]
    ELSE Append(h, [name |-> k, parent |-> v])

\* traverse: the forEach over nav from its i-th item on; acc carries the
\* pages array, the sectionHierarchy map and whether 'No title' was thrown
RECURSIVE traverse(_, _, _, _, _, _)
traverse(items, i, acc, parentSection, prefix, fs) ==
    IF i > Len(items) \/ acc.thrown THEN acc
    ELSE LET item == items[i]
             step ==
               CASE item.kind = "bare" -> [acc EXCEPT !.thrown = TRUE]
                 [] item.kind = "section" ->
                      traverse(item.items, 1,
                               [acc EXCEPT !.hier = HierarchySet(acc.hier, item.title, parentSection)],
                               item.title, prefix, fs)
                 [] OTHER ->
                      LET page == getPage(item.title, ResolveDocs(item.path), prefix, fs)
                      IN  IF page = <<>> THEN acc
                          ELSE [acc EXCEPT !.pages =
                                   Append(acc.pages, [page[1] EXCEPT !.parentPath = parentSection])]
         IN  traverse(items, i + 1, step, parentSection, prefix, fs)

\* the directory of a child below the first '/docs/' of its path, or the
\* empty sequence (null) when its path holds no '/docs/'
RelativeDir(child) ==
    LET docsIndex == IndexOf(child.path, DocsMarker)
    IN  IF docsIndex = -1 THEN <<>>
        ELSE Dirname(Substring(child.path, docsIndex + 6))

\* inferSectionDirectory: the empty sequence stands for null
inferSectionDirectory(children) ==
    LET relativePaths == SelectSeq([i \in DOMAIN children |-> RelativeDir(children[i])],
                                   LAMBDA p : p # <<>>)
    IN  IF Len(children) = 0 \/ Len(relativePaths) = 0 THEN <<>>
        ELSE LET firstPath == relativePaths[1]
                 allMatch(prefix) ==
                     \A k \in DOMAIN relativePaths : StartsWith(relativePaths[k], prefix)
                 lens == {len \in 1..PartCount(firstPath) : allMatch(JoinParts(firstPath, len))}
             IN  IF \A k \in DOMAIN relativePaths : relativePaths[k] = firstPath
                 THEN firstPath
                 ELSE IF lens = {} THEN <<>>
                 ELSE JoinParts(firstPath, CHOOSE len \in lens : \A m \in lens : m <= len)

\* createSectionPages: the loop over sectionHierarchy.entries() from its
\* i-th entry on
RECURSIVE createSectionPages(_, _, _, _, _)
createSectionPages(hier, i, pages, prefix, fs) ==
    IF i > Len(hier) THEN <<>>
    ELSE LET sectionName == hier[i].name
             parentSection == hier[i].parent
             sectionChildren == SelectSeq(pages, LAMBDA p : p.parentPath = sectionName)
             sectionDir == inferSectionDirectory(sectionChildren)
             readmePage == IF Len(sectionChildren) = 0 \/ sectionDir = <<>> THEN <<>>
                           ELSE getPage(sectionName, ResolveReadme(sectionDir), prefix, fs)
             mine == IF readmePage = <<>> THEN <<>>
                     ELSE <<[readmePage[1] EXCEPT !.parentPath = parentSection]>>
         IN  mine \o createSectionPages(hier, i + 1, pages, prefix, fs)

\* getContext: thrown when traverse throws, else the pages (nav pages, then
\* the section pages), the optional readMe and the section hierarchy
getContext(navigation, prefix, fs) ==
    LET t == traverse(navigation, 1, [pages |-> <<>>, hier |-> <<>>, thrown |-> FALSE],
                      null, prefix, fs)
        readMe == getPage(SiteName, README_MD, "", fs)
        sectionPages == createSectionPages(t.hier, 1, t.pages, prefix, fs)
    IN  [thrown |-> t.thrown,
         pages |-> t.pages \o sectionPages,
         readMe |-> readMe,
         sectionHierarchy |-> t.hier]

\* ------------------------------------------------------------------------
\* Remote store (the ConfluenceSDK collaborator) and page models
\* ------------------------------------------------------------------------
\* A remote page is [id, title, parent, path, repo]; the store is their set.
RemotePage(id, title, parent, p, repo) ==
    [id |-> id, title |-> title, parent |-> parent, path |-> p, repo |-> repo]

\* confluence.findPage(title): the remote pages carrying the title
findPage(store, title) == {r \in store : r.title = title}

\* confluence.getChildPages(parentId): the Map from meta.path to RemotePage,
\* as the set of its values; under one path the page of greatest id stays
getChildPages(store, parentId) ==
    IF parentId = NoId THEN {}
    ELSE {r \in store :
            /\ r.parent = parentId
            /\ \A q \in store : (q.parent = parentId /\ q.path = r.path) => q.id <= r.id}

\* the ids of the descendants of id in the store, id included
RECURSIVE Descendants(_, _)
Descendants(store, ids) ==
    LET more == {r.id : r \in {q \in store : q.parent \in ids}} \ ids
    IN  IF more = {} THEN ids ELSE Descendants(store, ids \cup more)

\* confluence.deletePage(id), cascading to the descendants
deletePage(store, id) == {r \in store : r.id \notin Descendants(store, {id})}

\* confluence.createPage: the store with the new page
createPage(store, id, page, parentPageId) ==
    store \cup {RemotePage(id, page.title, parentPageId, page.path, page.repo)}

\* confluence.updatePage: content and parent of the page are replaced
updatePage(store, id, parentPageId) ==
    {IF r.id = id THEN [r EXCEPT !.parent = parentPageId] ELSE r : r \in store}

\* RemotePage.repoConflict(): the remote page belongs to another repository
repoConflict(remotePage, localPage) == remotePage.repo # localPage.repo

\* ------------------------------------------------------------------------
\* syncPages (lib/confluence-syncer.js)
\* ------------------------------------------------------------------------
\* page.parentPath || null
ParentKey(page) == IF page.parentPath = "" THEN null ELSE page.parentPath

\* pagesByParent.get(parentKey) || []
pagesByParent(localPages, parentKey) ==
    SelectSeq(localPages, LAMBDA p : ParentKey(p) = parentKey)

\* sectionPages as a faulty syncPages would keep it: every title is a section
sectionPages_EveryTitle(localPages, title) == TRUE

\* sectionPages.get(title) is a page: some page has the truthy parentPath title
sectionPages(localPages, title) ==
    \E i \in DOMAIN localPages :
        /\ localPages[i].parentPath \notin {null, ""}
        /\ localPages[i].parentPath = title

\* syncedPages.get(key), NoId when the Map has no such key
SyncedGet(synced, key) == IF key \in DOMAIN synced THEN synced[key] ELSE NoId

\* syncedPages.set(key, id)
SyncedSet(synced, key, id) ==
    [k \in DOMAIN synced \cup {key} |-> IF k = key THEN id ELSE synced[k]]

\* an entry of the union array: an unmatched local page, a remote page
\* paired with a local page, or a remote page left without local page
NoLocal == LocalPage("", <<>>)
UnmatchedLocal(localPage) ==
    [remote |-> FALSE, id |-> NoId, title |-> localPage.title, repo |-> localPage.repo,
     path |-> localPage.path, hasLocal |-> TRUE, localPage |-> localPage]
Paired(remotePage, localPage) ==
    [remote |-> TRUE, id |-> remotePage.id, title |-> remotePage.title, repo |-> remotePage.repo,
     path |-> remotePage.path, hasLocal |-> TRUE, localPage |-> localPage]
Unpaired(remotePage) ==
    [remote |-> TRUE, id |-> remotePage.id, title |-> remotePage.title, repo |-> remotePage.repo,
     path |-> remotePage.path, hasLocal |-> FALSE, localPage |-> NoLocal]

\* a set of remote pages as a sequence in the order of their ids
RECURSIVE ById(_)
ById(rs) ==
    IF rs = {} THEN <<>>
    ELSE LET r == CHOOSE x \in rs : \A y \in rs : x.id <= y.id
         IN  <<r>> \o ById(rs \ {r})

\* the pairing loop as a faulty version that leaves a paired remote page in
\* the Map
RECURSIVE BuildUnion_KeepsPaired(_, _, _)
BuildUnion_KeepsPaired(pages, i, remotePages) ==
    IF i > Len(pages)
    THEN LET rest == ById(remotePages)
         IN  [k \in DOMAIN rest |-> Unpaired(rest[k])]
    ELSE LET localPage == pages[i]
             found == {r \in remotePages : r.path = localPage.path}
         IN  IF found = {}
             THEN <<UnmatchedLocal(localPage)>> \o BuildUnion_KeepsPaired(pages, i + 1, remotePages)
             ELSE LET remotePage == CHOOSE r \in found : TRUE
                  IN  <<Paired(remotePage, localPage)>>
                        \o BuildUnion_KeepsPaired(pages, i + 1, remotePages)

\* the pairing loop of processLevel over pages from its i-th page on, then
\* the loop over the remote pages left in the Map
RECURSIVE BuildUnion(_, _, _)
BuildUnion(pages, i, remotePages) ==
    IF i > Len(pages)
    THEN LET rest == ById(remotePages)
         IN  [k \in DOMAIN rest |-> Unpaired(rest[k])]
    ELSE LET localPage == pages[i]
             found == {r \in remotePages : r.path = localPage.path}
         IN  IF found = {}
             THEN <<UnmatchedLocal(localPage)>> \o BuildUnion(pages, i + 1, remotePages)
             ELSE LET remotePage == CHOOSE r \in found : TRUE
                  IN  <<Paired(remotePage, localPage)>>
                        \o BuildUnion(pages, i + 1, remotePages \ {remotePage})

\* the frame of a processLevel(parentKey) call at its entry
Frame(localPages, synced, parentKey) ==
    [parentKey |-> parentKey,
     pages |-> pagesByParent(localPages, parentKey),
     parentPageId |-> SyncedGet(synced, parentKey),
     fetched |-> FALSE,
     union |-> <<>>,
     i |-> 1,
     j |-> 1]

\* ------------------------------------------------------------------------
\* Inputs: navigation descriptions, files on disk, remote stores
\* ------------------------------------------------------------------------
InDir(dir, file) == dir \o sep \o file

f_readme == README_MD
f_a == InDir(w_docs, w_a_md)
f_b == InDir(w_docs, w_b_md)
f_guides_intro == InDir(w_docs, InDir(w_guides, w_intro_md))
f_guides_readme == InDir(w_docs, InDir(w_guides, README_MD))
f_docs_guides_intro == InDir(w_docs, InDir(w_docs, InDir(w_guides, w_intro_md)))
f_api_a == InDir(w_docs, InDir(w_api, w_a_md))
f_api_b == InDir(w_docs, InDir(w_api, w_b_md))

AllFiles ==
    {f_readme, f_a, f_b, f_guides_intro, f_guides_readme, f_docs_guides_intro,
     f_api_a, f_api_b}

\* no sections
NavFlat == <<Leaf("A", w_a_md), Leaf("B", w_b_md)>>
\* the Guides / Intro example
NavGuides == <<Section("Guides", <<Leaf("Intro", InDir(w_guides, w_intro_md))>>)>>
\* the same section with its page below a directory named docs
NavDocsGuides ==
    <<Section("Guides", <<Leaf("Intro", InDir(w_docs, InDir(w_guides, w_intro_md)))>>)>>
\* NavDocsGuides with the section renamed
NavDocsManual ==
    <<Section("Manual", <<Leaf("Intro", InDir(w_docs, InDir(w_guides, w_intro_md)))>>)>>
\* a leaf page titled as a section
NavLeafSection ==
    <<Leaf("Guides", w_a_md),
      Section("Guides", <<Leaf("Intro", InDir(w_guides, w_intro_md))>>)>>
\* the leaf page alone
NavLeafOnly == <<Leaf("Guides", w_a_md)>>
\* the title B at two levels
NavTwoLevels ==
    <<Leaf("A", w_a_md), Leaf("B", w_b_md),
      Section("A", <<Leaf("B", InDir(w_api, w_b_md))>>),
      Section("B", <<Leaf("C", InDir(w_api, w_a_md))>>)>>
\* one file under two titles
NavSameFile == <<Leaf("A", w_a_md), Leaf("B", w_a_md)>>
\* a page titled as the section that holds it
NavSelfNamed ==
    <<Leaf("A", w_a_md), Section("A", <<Leaf("A", InDir(w_api, w_a_md))>>)>>
\* an entry without title
NavBare == <<Leaf("A", w_a_md), Bare(w_b_md)>>

Navs ==
    {NavFlat, NavGuides, NavDocsGuides, NavDocsManual, NavLeafSection, NavLeafOnly,
     NavTwoLevels, NavSameFile, NavSelfNamed, NavBare}

\* inputs of the tree builder alone: a section name under two parents, and
\* a section whose pages lie in directories of which one name is a string
\* prefix of the other, in both orders
f_docs_guides2_setup == InDir(w_docs, InDir(w_docs, InDir(w_guides2, w_setup_md)))
BuilderFiles == AllFiles \cup {f_docs_guides2_setup}

NavRepeatedSection ==
    <<Section("Guides", <<Leaf("Intro", InDir(w_guides, w_intro_md))>>),
      Section("API", <<Leaf("A", InDir(w_api, w_a_md)),
                       Section("Guides", <<Leaf("B", InDir(w_api, w_b_md))>>)>>)>>
NavPrefixDirs ==
    <<Section("Guides",
              <<Leaf("Intro", InDir(w_docs, InDir(w_guides, w_intro_md))),
                Leaf("Setup", InDir(w_docs, InDir(w_guides2, w_setup_md)))>>)>>
NavPrefixDirsReversed ==
    <<Section("Guides",
              <<Leaf("Setup", InDir(w_docs, InDir(w_guides2, w_setup_md))),
                Leaf("Intro", InDir(w_docs, InDir(w_guides, w_intro_md)))>>)>>

BuilderNavs ==
    Navs \cup {NavRepeatedSection, NavPrefixDirs, NavPrefixDirsReversed}

\* config.confluence.titlePrefix
Prefixes == {"", "Docs"}

\* remote pages that exist before the first run: the configured ancestor
\* page and a page titled as the site that another repository published
AncestorPage == RemotePage(1, AncestorTitle, NoId, <<>>, OtherRepo)
ForeignHome == RemotePage(2, SiteName, NoId, <<>>, OtherRepo)
InitialStores == {{}, {AncestorPage}, {ForeignHome}}
FirstFreeId == ForeignHome.id + 1

\* ------------------------------------------------------------------------
\* State
\* ------------------------------------------------------------------------
VARIABLES
    nav,          \* the nav of mkdocs.yml
    files,        \* the files that exist below process.cwd()
    titlePrefix,  \* config.confluence.titlePrefix
    parentPage,   \* config.confluence.parentPage, "" when not configured
    remote,       \* the pages of the remote store
    nextId,       \* the id the store assigns to the next created page
    runs,         \* number of runs started
    edited,       \* the local inputs changed since the last run started
    rerun,        \* this run follows a completed sync of the same inputs
    op,           \* the last operation started: "none", "sync" or "cleanup"
    pc,           \* position of the running operation, "idle" when none runs
    before,       \* the remote store when the run started
    outcome,      \* outcome of the last run
    ctx,          \* the context of the run (getContext)
    ancestor,     \* findParentPage's result
    homeRemote,   \* id of the remote page found for the site name
    home,         \* id of the synced home page
    syncedPages,  \* the syncedPages Map of syncPages
    stack,        \* the processLevel calls in progress, innermost last
    queue,        \* cleanup: ids still to delete
    log,          \* the remote-store calls of the run, in order
    writes        \* the keys written to syncedPages in the run, in order

vars ==
    <<nav, files, titlePrefix, parentPage, remote, nextId, runs, edited, rerun, op, pc,
      before, outcome, ctx, ancestor, homeRemote, home, syncedPages, stack, queue, log, writes>>

localVars == <<nav, files, titlePrefix, parentPage>>
\* what only the start of a run changes
startVars == <<runs, edited, rerun, op, before, ctx>>

NoContext == [thrown |-> FALSE, pages |-> <<>>, readMe |-> <<>>, sectionHierarchy |-> <<>>]
NoSynced == [k \in {} |-> NoId]

Init ==
    /\ nav \in Navs
    /\ files = AllFiles
    /\ titlePrefix \in Prefixes
    /\ parentPage \in {"", AncestorTitle}
    /\ remote \in InitialStores
    /\ nextId = FirstFreeId
    /\ runs = 0
    /\ edited = FALSE
    /\ rerun = FALSE
    /\ op = "none"
    /\ pc = "idle"
    /\ before = {}
    /\ outcome = "none"
    /\ ctx = NoContext
    /\ ancestor = NoId
    /\ homeRemote = NoId
    /\ home = NoId
    /\ syncedPages = NoSynced
    /\ stack = <<>>
    /\ queue = <<>>
    /\ log = <<>>
    /\ writes = <<>>

\* ------------------------------------------------------------------------
\* Remote calls
\* ------------------------------------------------------------------------
\* a call of the remote store as the log records it: key is the parentKey of
\* the processLevel call that issued it, NoLevel outside processLevel; p is
\* the meta.path of the local page created or updated, or of the remote
\* page deleted; found is the page findPage returned (none: the empty set)
\* or the pages getChildPages returned
NoLevel == "<none>"
Call(name, key, id, parent, title, p, ok) ==
    [call |-> name, key |-> key, id |-> id, parent |-> parent, title |-> title,
     path |-> p, ok |-> ok, found |-> {}]

Top == stack[Len(stack)]

\* the home page to sync: readMe, or the page syncHome makes up
HomeLocal == IF ctx.readMe = <<>> THEN LocalPage(SiteName, <<>>) ELSE ctx.readMe[1]

\* the call page.sync issues for an entry of union: LocalPage.sync creates,
\* RemotePage.sync updates the page paired with a local page and deletes a
\* page without local page
SyncCall(entry, key, parentPageId, ok) ==
    CASE ~entry.remote ->
           Call("create", key, IF ok THEN nextId ELSE NoId, parentPageId, entry.title,
                entry.localPage.path, ok)
      [] entry.remote /\ entry.hasLocal ->
           Call("update", key, entry.id, parentPageId, entry.title, entry.localPage.path, ok)
      [] OTHER -> Call("delete", key, entry.id, NoId, entry.title, entry.path, ok)

\* the remote call the running operation is waiting for
Awaiting ==
    \/ op = "sync" /\ pc = "findParent" /\ parentPage # ""
    \/ op = "sync" /\ pc \in {"findHome", "syncHome"}
    \/ op = "sync" /\ pc = "levels" /\ stack # <<>> /\ (~Top.fetched \/ Top.i <= Len(Top.union))
    \/ op = "cleanup" /\ pc \in {"cleanFind", "cleanChildren", "cleanDelete"}

PendingCall(ok) ==
    CASE pc = "findParent" -> Call("findPage", NoLevel, NoId, NoId, parentPage, <<>>, ok)
      [] pc = "findHome" -> Call("findPage", NoLevel, NoId, NoId, SiteName, <<>>, ok)
      [] pc = "syncHome" ->
           IF homeRemote = NoId
           THEN Call("create", NoLevel, IF ok THEN nextId ELSE NoId, ancestor, SiteName,
                     HomeLocal.path, ok)
           ELSE Call("update", NoLevel, homeRemote, ancestor, SiteName, HomeLocal.path, ok)
      [] pc = "levels" /\ ~Top.fetched ->
           Call("getChildPages", Top.parentKey, Top.parentPageId, NoId, "", <<>>, ok)
      [] pc = "levels" /\ Top.fetched ->
           SyncCall(Top.union[Top.i], Top.parentKey, Top.parentPageId, ok)
      [] pc = "cleanFind" -> Call("findPage", NoLevel, NoId, NoId, SiteName, <<>>, ok)
      [] pc = "cleanChildren" ->
           Call("getChildPages", NoLevel, homeRemote, NoId, "", <<>>, ok)
      [] OTHER -> Call("delete", NoLevel, Head(queue), NoId, "", <<>>, ok)

\* the call returned what the store found
Returned(found) == [PendingCall(TRUE) EXCEPT !.found = found]

\* the run ends: outcome "failed" is errorHandler's logger.fail
EndRun(result) ==
    /\ pc' = "idle"
    /\ outcome' = result

\* ------------------------------------------------------------------------
\* sync
\* ------------------------------------------------------------------------
\* sync() up to its first await: getContext, then syncHome's first lines
StartSync ==
    /\ pc = "idle"
    /\ runs < MaxRuns
    /\ runs' = runs + 1
    /\ edited' = FALSE
    /\ rerun' = (outcome = "completed" /\ ~edited)
    /\ ctx' = getContext(nav, titlePrefix, files)
    /\ op' = "sync"
    /\ before' = remote
    /\ IF ctx'.thrown
       THEN EndRun("failed")
       ELSE /\ pc' = "findParent"
            /\ outcome' = "running"
    /\ ancestor' = NoId
    /\ homeRemote' = NoId
    /\ home' = NoId
    /\ syncedPages' = NoSynced
    /\ stack' = <<>>
    /\ queue' = <<>>
    /\ log' = <<>>
    /\ writes' = <<>>
    /\ UNCHANGED <<localVars, remote, nextId>>

\* findParentPage as a faulty version that goes on without the parent page
FindParentPage_NoThrow ==
    /\ op = "sync"
    /\ pc = "findParent"
    /\ IF parentPage = ""
       THEN /\ ancestor' = NoId
            /\ pc' = "findHome"
            /\ UNCHANGED <<outcome, log>>
       ELSE IF findPage(remote, parentPage) = {}
            THEN /\ log' = Append(log, Returned({}))
                 /\ ancestor' = NoId
                 /\ pc' = "findHome"
                 /\ UNCHANGED outcome
            ELSE \E parent \in findPage(remote, parentPage) :
                   /\ log' = Append(log, Returned({parent}))
                   /\ ancestor' = parent.id
                   /\ pc' = "findHome"
                   /\ UNCHANGED outcome
    /\ UNCHANGED <<localVars, startVars, remote, nextId, homeRemote, home, syncedPages, stack,
                   queue, writes>>

\* findParentPage: no lookup when no parent page is configured
FindParentPage ==
    /\ op = "sync"
    /\ pc = "findParent"
    /\ IF parentPage = ""
       THEN /\ ancestor' = NoId
            /\ pc' = "findHome"
            /\ UNCHANGED <<outcome, log>>
       ELSE IF findPage(remote, parentPage) = {}
            THEN /\ log' = Append(log, Returned({}))
                 /\ EndRun("failed")
                 /\ UNCHANGED ancestor
            ELSE \E parent \in findPage(remote, parentPage) :
                   /\ log' = Append(log, Returned({parent}))
                   /\ ancestor' = parent.id
                   /\ pc' = "findHome"
                   /\ UNCHANGED outcome
    /\ UNCHANGED <<localVars, startVars, remote, nextId, homeRemote, home, syncedPages, stack,
                   queue, writes>>

\* syncHome as a faulty version without the repository conflict check
FindHomePage_NoConflictCheck ==
    /\ op = "sync"
    /\ pc = "findHome"
    /\ IF findPage(remote, SiteName) = {}
       THEN /\ log' = Append(log, Returned({}))
            /\ homeRemote' = NoId
            /\ pc' = "syncHome"
            /\ UNCHANGED outcome
       ELSE \E remotePage \in findPage(remote, SiteName) :
              /\ log' = Append(log, Returned({remotePage}))
              /\ IF FALSE
                 THEN /\ EndRun("failed")
                      /\ UNCHANGED homeRemote
                 ELSE /\ homeRemote' = remotePage.id
                      /\ pc' = "syncHome"
                      /\ UNCHANGED outcome
    /\ UNCHANGED <<localVars, startVars, remote, nextId, ancestor, home, syncedPages, stack,
                   queue, writes>>

\* syncHome: findPage(siteName) and the repository conflict check
FindHomePage ==
    /\ op = "sync"
    /\ pc = "findHome"
    /\ IF findPage(remote, SiteName) = {}
       THEN /\ log' = Append(log, Returned({}))
            /\ homeRemote' = NoId
            /\ pc' = "syncHome"
            /\ UNCHANGED outcome
       ELSE \E remotePage \in findPage(remote, SiteName) :
              /\ log' = Append(log, Returned({remotePage}))
              /\ IF repoConflict(remotePage, HomeLocal)
                 THEN /\ EndRun("failed")
                      /\ UNCHANGED homeRemote
                 ELSE /\ homeRemote' = remotePage.id
                      /\ pc' = "syncHome"
                      /\ UNCHANGED outcome
    /\ UNCHANGED <<localVars, startVars, remote, nextId, ancestor, home, syncedPages, stack,
                   queue, writes>>

\* syncHome: homePage.sync returns, then syncPages up to processLevel(null)'s
\* await of getChildPages
SyncHome ==
    /\ op = "sync"
    /\ pc = "syncHome"
    /\ log' = Append(log, PendingCall(TRUE))
    /\ IF homeRemote = NoId
       THEN /\ remote' = createPage(remote, nextId, HomeLocal, ancestor)
            /\ nextId' = nextId + 1
            /\ home' = nextId
       ELSE /\ remote' = updatePage(remote, homeRemote, ancestor)
            /\ home' = homeRemote
            /\ UNCHANGED nextId
    /\ syncedPages' = SyncedSet(NoSynced, null, home')
    /\ writes' = <<null>>
    /\ stack' = <<Frame(ctx.pages, syncedPages', null)>>
    /\ pc' = "levels"
    /\ UNCHANGED <<localVars, startVars, outcome, ancestor, homeRemote, queue>>

\* ------------------------------------------------------------------------
\* processLevel
\* ------------------------------------------------------------------------
ReplaceTop(frame) == [stack EXCEPT ![Len(stack)] = frame]

\* the paired remote page belongs to another repository: sync throws
ConflictEntry(entry) ==
    entry.remote /\ entry.hasLocal /\ repoConflict(entry, entry.localPage)

\* processLevel as a faulty version that decides without the fetched pages
FetchLevel_NoSnapshot ==
    /\ op = "sync"
    /\ pc = "levels"
    /\ stack # <<>>
    /\ ~Top.fetched
    /\ log' = Append(log, Returned(getChildPages(remote, Top.parentPageId)))
    /\ stack' = ReplaceTop([Top EXCEPT
                   !.fetched = TRUE,
                   !.union = BuildUnion(Top.pages, 1, {})])
    /\ UNCHANGED <<localVars, startVars, remote, nextId, pc, outcome, ancestor, homeRemote,
                   home, syncedPages, queue, writes>>

\* getChildPages returns: the pairing loop and the loop over the remote
\* pages left build union
FetchLevel ==
    /\ op = "sync"
    /\ pc = "levels"
    /\ stack # <<>>
    /\ ~Top.fetched
    /\ log' = Append(log, Returned(getChildPages(remote, Top.parentPageId)))
    /\ stack' = ReplaceTop([Top EXCEPT
                   !.fetched = TRUE,
                   !.union = BuildUnion(Top.pages, 1, getChildPages(remote, Top.parentPageId))])
    /\ UNCHANGED <<localVars, startVars, remote, nextId, pc, outcome, ancestor, homeRemote,
                   home, syncedPages, queue, writes>>

\* one turn of the loop over union: page.sync, then syncedPages.set
SyncPage ==
    /\ op = "sync"
    /\ pc = "levels"
    /\ stack # <<>>
    /\ Top.fetched
    /\ Top.i <= Len(Top.union)
    /\ LET page == Top.union[Top.i]
           gone == page.remote /\ page.id \notin {r.id : r \in remote}
           syncedId == IF ~page.remote THEN nextId
                       ELSE IF page.hasLocal THEN page.id ELSE NoId
       IN  IF ConflictEntry(page) \/ gone
           THEN /\ EndRun("failed")
                /\ log' = IF gone THEN Append(log, PendingCall(FALSE)) ELSE log
                /\ UNCHANGED <<remote, nextId, syncedPages, writes, stack>>
           ELSE /\ log' = Append(log, PendingCall(TRUE))
                /\ remote' =
                     CASE ~page.remote -> createPage(remote, nextId, page.localPage, Top.parentPageId)
                       [] page.remote /\ page.hasLocal -> updatePage(remote, page.id, Top.parentPageId)
                       [] OTHER -> deletePage(remote, page.id)
                /\ nextId' = IF page.remote THEN nextId ELSE nextId + 1
                /\ IF page.title # "" /\ syncedId # NoId
                   THEN /\ syncedPages' = SyncedSet(syncedPages, page.title, syncedId)
                        /\ writes' = Append(writes, page.title)
                   ELSE UNCHANGED <<syncedPages, writes>>
                /\ stack' = ReplaceTop([Top EXCEPT !.i = Top.i + 1])
                /\ UNCHANGED <<pc, outcome>>
    /\ UNCHANGED <<localVars, startVars, ancestor, homeRemote, home, queue>>

\* the indexes, from the frame's j on, of the pages of the level that
\* sectionPages knows as sections
SectionsFrom(frame) ==
    {k \in frame.j..Len(frame.pages) : sectionPages(ctx.pages, frame.pages[k].title)}

\* the loop over pages reaches a page that is a section: processLevel(title)
Descend ==
    /\ op = "sync"
    /\ pc = "levels"
    /\ stack # <<>>
    /\ Top.fetched
    /\ Top.i > Len(Top.union)
    /\ SectionsFrom(Top) # {}
    /\ Len(stack) < MaxDepth
    /\ LET k == CHOOSE x \in SectionsFrom(Top) : \A y \in SectionsFrom(Top) : x <= y
       IN  stack' = Append(ReplaceTop([Top EXCEPT !.j = k + 1]),
                           Frame(ctx.pages, syncedPages, Top.pages[k].title))
    /\ UNCHANGED <<localVars, startVars, remote, nextId, pc, outcome, ancestor, homeRemote,
                   home, syncedPages, queue, log, writes>>

\* processLevel returns; when processLevel(null) returns, sync logs the url
\* and writes the summary
Return ==
    /\ op = "sync"
    /\ pc = "levels"
    /\ stack # <<>>
    /\ Top.fetched
    /\ Top.i > Len(Top.union)
    /\ SectionsFrom(Top) = {}
    /\ stack' = SubSeq(stack, 1, Len(stack) - 1)
    /\ IF Len(stack) = 1
       THEN EndRun("completed")
       ELSE UNCHANGED <<pc, outcome>>
    /\ UNCHANGED <<localVars, startVars, remote, nextId, ancestor, homeRemote, home,
                   syncedPages, queue, log, writes>>

\* the awaited call rejects in a faulty version that swallows the error
RemoteFails_Swallowed ==
    /\ Awaiting
    /\ log' = Append(log, PendingCall(FALSE))
    /\ UNCHANGED <<pc, outcome>>
    /\ UNCHANGED <<localVars, startVars, remote, nextId, ancestor, homeRemote, home,
                   syncedPages, stack, queue, writes>>

\* the awaited remote call rejects: the error reaches errorHandler
RemoteFails ==
    /\ Awaiting
    /\ log' = Append(log, PendingCall(FALSE))
    /\ EndRun("failed")
    /\ UNCHANGED <<localVars, startVars, remote, nextId, ancestor, homeRemote, home,
                   syncedPages, stack, queue, writes>>

\* ------------------------------------------------------------------------
\* cleanup
\* ------------------------------------------------------------------------
\* cleanup() up to its first await; getContext is called outside the try
StartCleanup ==
    /\ pc = "idle"
    /\ runs < MaxRuns
    /\ runs' = runs + 1
    /\ edited' = FALSE
    /\ rerun' = FALSE
    /\ ctx' = getContext(nav, titlePrefix, files)
    /\ op' = "cleanup"
    /\ before' = remote
    /\ IF ctx'.thrown
       THEN EndRun("rejected")
       ELSE /\ pc' = "cleanFind"
            /\ outcome' = "running"
    /\ ancestor' = NoId
    /\ homeRemote' = NoId
    /\ home' = NoId
    /\ syncedPages' = NoSynced
    /\ stack' = <<>>
    /\ queue' = <<>>
    /\ log' = <<>>
    /\ writes' = <<>>
    /\ UNCHANGED <<localVars, remote, nextId>>

\* cleanup as a faulty version without the return when there is no page
CleanupFind_NoReturn ==
    /\ op = "cleanup"
    /\ pc = "cleanFind"
    /\ IF findPage(remote, SiteName) = {}
       THEN /\ log' = Append(log, Returned({}))
            /\ homeRemote' = NoId
       ELSE \E page \in findPage(remote, SiteName) :
              /\ log' = Append(log, Returned({page}))
              /\ homeRemote' = page.id
    /\ pc' = "cleanChildren"
    /\ UNCHANGED outcome
    /\ UNCHANGED <<localVars, startVars, remote, nextId, ancestor, home, syncedPages, stack,
                   queue, writes>>

\* findPage(siteName) returns: a warning and return when there is no page
CleanupFind ==
    /\ op = "cleanup"
    /\ pc = "cleanFind"
    /\ IF findPage(remote, SiteName) = {}
       THEN /\ log' = Append(log, Returned({}))
            /\ EndRun("nothing")
            /\ UNCHANGED homeRemote
       ELSE \E page \in findPage(remote, SiteName) :
              /\ log' = Append(log, Returned({page}))
              /\ homeRemote' = page.id
              /\ pc' = "cleanChildren"
              /\ UNCHANGED outcome
    /\ UNCHANGED <<localVars, startVars, remote, nextId, ancestor, home, syncedPages, stack,
                   queue, writes>>

\* cleanup as a faulty version that deletes home before its children
CleanupChildren_HomeFirst ==
    /\ op = "cleanup"
    /\ pc = "cleanChildren"
    /\ log' = Append(log, Returned(getChildPages(remote, homeRemote)))
    /\ LET children == ById(getChildPages(remote, homeRemote))
       IN  queue' = <<homeRemote>> \o [k \in DOMAIN children |-> children[k].id]
    /\ pc' = "cleanDelete"
    /\ UNCHANGED <<localVars, startVars, remote, nextId, outcome, ancestor, homeRemote, home,
                   syncedPages, stack, writes>>

\* getChildPages(home.id) returns: the children, then home, are to delete
CleanupChildren ==
    /\ op = "cleanup"
    /\ pc = "cleanChildren"
    /\ log' = Append(log, Returned(getChildPages(remote, homeRemote)))
    /\ LET children == ById(getChildPages(remote, homeRemote))
       IN  queue' = [k \in DOMAIN children |-> children[k].id] \o <<homeRemote>>
    /\ pc' = "cleanDelete"
    /\ UNCHANGED <<localVars, startVars, remote, nextId, outcome, ancestor, homeRemote, home,
                   syncedPages, stack, writes>>

\* unpublish: one deletePage returns; after the last one the summary
CleanupDelete ==
    /\ op = "cleanup"
    /\ pc = "cleanDelete"
    /\ queue # <<>>
    /\ Head(queue) \in {r.id : r \in remote}
    /\ log' = Append(log, PendingCall(TRUE))
    /\ remote' = deletePage(remote, Head(queue))
    /\ queue' = Tail(queue)
    /\ IF Len(queue) = 1
       THEN EndRun("cleaned")
       ELSE UNCHANGED <<pc, outcome>>
    /\ UNCHANGED <<localVars, startVars, nextId, ancestor, homeRemote, home, syncedPages,
                   stack, writes>>

\* ------------------------------------------------------------------------
\* The documentation changes between runs
\* ------------------------------------------------------------------------
EditNav ==
    /\ pc = "idle"
    /\ 0 < runs
    /\ runs < MaxRuns
    /\ ~edited
    /\ \E n \in Navs \ {nav} : nav' = n
    /\ edited' = TRUE
    /\ UNCHANGED <<files, titlePrefix, parentPage, remote, nextId, runs, rerun, op, pc,
                   before, outcome, ctx, ancestor, homeRemote, home, syncedPages, stack,
                   queue, log, writes>>

RemoveFile ==
    /\ pc = "idle"
    /\ 0 < runs
    /\ runs < MaxRuns
    /\ ~edited
    /\ \E f \in files : files' = files \ {f}
    /\ edited' = TRUE
    /\ UNCHANGED <<nav, titlePrefix, parentPage, remote, nextId, runs, rerun, op, pc, before,
                   outcome, ctx, ancestor, homeRemote, home, syncedPages, stack, queue, log,
                   writes>>

Next ==
    \/ StartSync
    \/ FindParentPage
    \/ FindHomePage
    \/ SyncHome
    \/ FetchLevel
    \/ SyncPage
    \/ Descend
    \/ Return
    \/ RemoteFails
    \/ StartCleanup
    \/ CleanupFind
    \/ CleanupChildren
    \/ CleanupDelete
    \/ EditNav
    \/ RemoveFile

Spec == Init /\ [][Next]_vars

\* ------------------------------------------------------------------------
\* The tree builder alone
\* ------------------------------------------------------------------------
\* context.getContext() called by itself: it returns the context or throws
CallGetContext ==
    /\ pc = "idle"
    /\ runs < MaxRuns
    /\ runs' = runs + 1
    /\ edited' = FALSE
    /\ ctx' = getContext(nav, titlePrefix, files)
    /\ outcome' = IF ctx'.thrown THEN "thrown" ELSE "returned"
    /\ UNCHANGED <<localVars, remote, nextId, rerun, op, pc, before, ancestor, homeRemote,
                   home, syncedPages, stack, queue, log, writes>>

BuilderInit ==
    /\ nav \in BuilderNavs
    /\ files = BuilderFiles
    /\ titlePrefix \in Prefixes
    /\ parentPage = ""
    /\ remote = {}
    /\ nextId = FirstFreeId
    /\ runs = 0
    /\ edited = FALSE
    /\ rerun = FALSE
    /\ op = "none"
    /\ pc = "idle"
    /\ before = {}
    /\ outcome = "none"
    /\ ctx = NoContext
    /\ ancestor = NoId
    /\ homeRemote = NoId
    /\ home = NoId
    /\ syncedPages = NoSynced
    /\ stack = <<>>
    /\ queue = <<>>
    /\ log = <<>>
    /\ writes = <<>>

BuilderNext ==
    \/ CallGetContext
    \/ EditNav
    \/ RemoveFile

BuilderSpec == BuilderInit /\ [][BuilderNext]_vars

\* ------------------------------------------------------------------------
\* Vocabulary of the properties
\* ------------------------------------------------------------------------
Mutating == {"create", "update", "delete"}

\* the log entries of the calls of the given names that returned
Done(calls) == {k \in DOMAIN log : log[k].ok /\ log[k].call \in calls}

\* the last run is a sync that completed without error
SyncCompleted == op = "sync" /\ pc = "idle" /\ outcome = "completed"

\* the create / update calls processLevel issued for a local page
SyncsOf(page) ==
    {k \in Done({"create", "update"}) :
        log[k].key = ParentKey(page) /\ log[k].path = page.path}

\* the pages of the context as a set
LocalPages == {ctx.pages[k] : k \in DOMAIN ctx.pages}

\* the pages traverse builds from the current nav and files
NavPages ==
    traverse(nav, 1, [pages |-> <<>>, hier |-> <<>>, thrown |-> FALSE], null,
             titlePrefix, files).pages

\* the frame below the n-th frame of the stack has finished its loop over
\* union: every page.sync of that level has returned
ParentLevelSynced(n) ==
    /\ stack[n - 1].fetched
    /\ stack[n - 1].i > Len(stack[n - 1].union)

\* ------------------------------------------------------------------------
\* C1
\* ------------------------------------------------------------------------
\* C1 (as claimed): every processLevel(k) in progress for a non-root key k
\* was entered after all sync calls of the calling level returned, with the
\* remote id of the page titled k recorded in syncedPages under k, so that
\* the parent id it read is a defined remote id.
C1_ParentBeforeChild ==
    (op = "sync" /\ pc = "levels") =>
        \A n \in 2..Len(stack) :
            /\ ParentLevelSynced(n)
            /\ stack[n].parentKey \in DOMAIN syncedPages
            /\ stack[n].parentPageId # NoId

\* ------------------------------------------------------------------------
\* C2
\* ------------------------------------------------------------------------
\* the local pages that represent section S: titled S, in the section that
\* the hierarchy gives as parent of S
Representatives(S) ==
    {q \in LocalPages :
        /\ q.title = S
        /\ \E k \in DOMAIN ctx.sectionHierarchy :
              /\ ctx.sectionHierarchy[k].name = S
              /\ ctx.sectionHierarchy[k].parent = ParentKey(q)}

\* the remote ids the run gave to the local page q
RemoteIds(q) == {log[k].id : k \in SyncsOf(q)}

\* the parent ids that are right for the local page
RightParents(page) ==
    IF ParentKey(page) = null THEN {home}
    ELSE UNION {RemoteIds(q) : q \in Representatives(ParentKey(page))}

\* C2 (as claimed): after a sync run that completed without error every
\* local page was created or updated, each time below the remote page of the
\* local page that represents its section, or below home for a root page.
C2_RemoteTreeMatchesLocal ==
    SyncCompleted =>
        \A page \in LocalPages :
            /\ SyncsOf(page) # {}
            /\ \A k \in SyncsOf(page) : log[k].parent \in RightParents(page)

\* ------------------------------------------------------------------------
\* C3
\* ------------------------------------------------------------------------
\* the child pages of a section, and the section page createSectionPages
\* makes for a hierarchy entry (the empty sequence when it makes none)
SectionChildren(S) == {page \in LocalPages : page.parentPath = S}
SectionPageOf(entry) == createSectionPages(<<entry>>, 1, NavPages, titlePrefix, files)

\* C3 (as claimed): after a completed sync run, every child page of a
\* section that has children but got no section page was created or updated.
C3_ChildrenOfPagelessSectionSynced ==
    (SyncCompleted /\ ~edited) =>
        \A k \in DOMAIN ctx.sectionHierarchy :
            (/\ SectionChildren(ctx.sectionHierarchy[k].name) # {}
             /\ SectionPageOf(ctx.sectionHierarchy[k]) = <<>>)
            => \A page \in SectionChildren(ctx.sectionHierarchy[k].name) : SyncsOf(page) # {}

\* ------------------------------------------------------------------------
\* C4
\* ------------------------------------------------------------------------
\* a delete of the remote page returned
Deleted(id) == \E k \in Done({"delete"}) : log[k].id = id

\* the local pages of the level below a key
Level(key) == {page \in LocalPages : ParentKey(page) = key}

\* the local pages that processLevel paired with the remote page id
PairedWith(id) ==
    {page \in LocalPages :
        \E k \in Done({"update"}) :
            /\ log[k].key # NoLevel
            /\ log[k].id = id
            /\ log[k].key = ParentKey(page)
            /\ log[k].path = page.path}

\* C4 (as claimed): after a completed sync run, a delete was issued for
\* every remote page that was a direct child of home, or of a remote page
\* paired with a local page, and whose path is the path of no local page of
\* that level.
C4_OrphanRemoval ==
    SyncCompleted =>
        \A r \in before :
            /\ (r.parent = home /\ \A page \in Level(null) : page.path # r.path)
                   => Deleted(r.id)
            /\ \A parent \in PairedWith(r.parent) :
                   (\A page \in Level(parent.title) : page.path # r.path) => Deleted(r.id)

\* ------------------------------------------------------------------------
\* C5
\* ------------------------------------------------------------------------
\* C5 (as claimed): a sync run that follows a completed sync run of the same
\* nav and files, and completes, issued no create and no delete: every local
\* page of every processed level was paired with a remote page.
C5_Idempotent ==
    (SyncCompleted /\ rerun) =>
        \A k \in DOMAIN log : log[k].call \notin {"create", "delete"}

\* ------------------------------------------------------------------------
\* C6
\* ------------------------------------------------------------------------
\* findPage(siteName) of a sync run returned a page of another repository
ForeignHomeFound(k) ==
    /\ log[k].call = "findPage"
    /\ log[k].ok
    /\ log[k].title = SiteName
    /\ \E r \in log[k].found : r.repo # Repo

\* C6: when findPage(siteName) returns a page of another repository, the
\* sync run fails and issued no create, update or delete: the lookup is its
\* last remote call and the remote store is as it was.
C6_HomeConflictGuard ==
    op = "sync" =>
        \A k \in DOMAIN log :
            ForeignHomeFound(k) =>
                /\ pc = "idle"
                /\ outcome = "failed"
                /\ k = Len(log)
                /\ \A m \in DOMAIN log : log[m].call \notin Mutating
                /\ remote = before

\* C6 witness: a sync run that failed on the page of another repository
C6_Witness ==
    /\ op = "sync"
    /\ outcome = "failed"
    /\ \E k \in DOMAIN log : ForeignHomeFound(k)

\* ------------------------------------------------------------------------
\* C7
\* ------------------------------------------------------------------------
\* the nav of the run has no section
NoSections == ~ctx.thrown /\ ctx.sectionHierarchy = <<>>

\* the calls of the given names that processLevel issued, returned or not
LevelCalls(calls) == {k \in DOMAIN log : log[k].key # NoLevel /\ log[k].call \in calls}

\* C7: in a sync run of a nav without sections processLevel never recurses,
\* every create and update of a page carries the home id as parent, and
\* getChildPages is called for the home id only, once in a completed run.
C7_FlatNavOneLevel ==
    (op = "sync" /\ NoSections) =>
        /\ Len(stack) <= 1
        /\ \A k \in LevelCalls({"create", "update"}) :
              log[k].key = null /\ log[k].parent = home
        /\ \A k \in LevelCalls({"getChildPages"}) :
              log[k].key = null /\ log[k].id = home
        /\ Cardinality(LevelCalls({"getChildPages"})) <= 1
        /\ SyncCompleted => Cardinality(LevelCalls({"getChildPages"})) = 1

\* C7 witness: a completed run of a nav without sections that created two
\* pages
C7_Witness ==
    /\ SyncCompleted
    /\ NoSections
    /\ Cardinality(LevelCalls({"create"})) = 2

\* ------------------------------------------------------------------------
\* C8
\* ------------------------------------------------------------------------
\* the Guides / Intro example is the input of the run
GuidesExample == op = "sync" /\ ~edited /\ nav = NavGuides /\ titlePrefix = ""

\* C8 (as claimed): with guides/intro.md and guides/README.md on disk, the
\* context of the example holds a root page titled Guides, and a completed
\* run synced Intro below the remote page of Guides.
C8_GuidesExample ==
    (GuidesExample /\ {f_guides_intro, f_guides_readme} \subseteq files) =>
        /\ \E q \in LocalPages : q.title = "Guides" /\ q.parentPath = null
        /\ SyncCompleted =>
              \E k \in Done({"create", "update"}) :
                  /\ log[k].title = "Intro"
                  /\ \E g \in Done({"create", "update"}) :
                        log[g].title = "Guides" /\ log[g].id = log[k].parent

\* ------------------------------------------------------------------------
\* C9
\* ------------------------------------------------------------------------
\* C9 (as claimed): in the example with guides/intro.md removed and
\* guides/README.md kept, a completed run created no Intro, processed the
\* Guides level, and deleted there the Intro page published before.
C9_RemovedIntro ==
    (GuidesExample /\ SyncCompleted /\ 1 < runs
       /\ f_guides_intro \notin files /\ f_guides_readme \in files) =>
        /\ \A k \in DOMAIN log : ~(log[k].call = "create" /\ log[k].title = "Intro")
        /\ \E k \in Done({"getChildPages"}) : log[k].key = "Guides"
        /\ \A r \in before :
              (r.title = "Intro" /\ r.path = f_guides_intro) =>
                  \E d \in Done({"delete"}) : log[d].id = r.id /\ log[d].key = "Guides"

\* ------------------------------------------------------------------------
\* C10
\* ------------------------------------------------------------------------
\* C10: when cleanup's findPage(siteName) returns no page, cleanup ends with
\* the warning, without the failure handler, and that lookup is the only
\* remote call of the run: no getChildPages and no deletePage.
C10_NothingToClean ==
    op = "cleanup" =>
        \A k \in DOMAIN log :
            (log[k].call = "findPage" /\ log[k].ok /\ log[k].found = {}) =>
                /\ pc = "idle"
                /\ outcome = "nothing"
                /\ Len(log) = 1
                /\ remote = before

\* C10 witness: a cleanup that found no page titled as the site
C10_Witness ==
    /\ op = "cleanup"
    /\ outcome = "nothing"
    /\ Len(log) = 1
    /\ log[1].found = {}

\* ------------------------------------------------------------------------
\* C11
\* ------------------------------------------------------------------------
\* the deletePage calls of a cleanup run, returned or not
CleanupDeletes == {k \in DOMAIN log : log[k].call = "delete"}

\* the pages cleanup's getChildPages(home.id) returned
CleanupFetched ==
    UNION {log[k].found : k \in {g \in DOMAIN log : log[g].call = "getChildPages"}}

FailedCalls == {k \in DOMAIN log : ~log[k].ok}

\* C12: a remote call of a sync run that fails is the last remote call of
\* the run (no further call, no retry, no compensating call), and the run
\* ends in the failure handler, not in the success summary.
C12_AbortOnFirstFailure ==
    op = "sync" =>
        \A k \in FailedCalls :
            /\ k = Len(log)
            /\ pc = "idle"
            /\ outcome = "failed"

\* C12 witness: a page sync failed after an earlier page of the level was
\* created, with a page of the level still to sync; the created page stays
C12_Witness ==
    /\ op = "sync"
    /\ outcome = "failed"
    /\ stack # <<>>
    /\ Top.fetched
    /\ Top.i > 1
    /\ Top.i < Len(Top.union)
    /\ log[Len(log)].call \in Mutating
    /\ ~log[Len(log)].ok
    /\ log[Len(log) - 1].call = "create"
    /\ log[Len(log) - 1].ok
    /\ log[Len(log) - 1].id \in {r.id : r \in remote}

\* ------------------------------------------------------------------------
\* C13
\* ------------------------------------------------------------------------
\* the getChildPages calls of processLevel: one for each invocation
Invocations == LevelCalls({"getChildPages"})

\* C13 (as claimed): in a sync run no key of syncedPages is written twice
\* (the null key holds the home id, every title is recorded at most once)
\* and processLevel is invoked at most once for every level key.
C13_WriteOncePerKey ==
    (op = "sync" /\ writes # <<>>) =>
        /\ writes[1] = null
        /\ SyncedGet(syncedPages, null) = home
        /\ \A a, b \in DOMAIN writes : writes[a] = writes[b] => a = b
        /\ \A a, b \in Invocations : log[a].key = log[b].key => a = b

\* ------------------------------------------------------------------------
\* C14
\* ------------------------------------------------------------------------
\* C14 (as claimed): processLevel is invoked finitely many times.  Which
\* calls processLevel(k) makes is fixed by the page sequence alone, so a
\* call for k entered while a call for k is in progress repeats that call
\* without end: in a run that ends, the calls in progress have distinct keys.
C14_Terminates ==
    (op = "sync" /\ pc = "levels") =>
        \A a, b \in DOMAIN stack : stack[a].parentKey = stack[b].parentKey => a = b

\* ------------------------------------------------------------------------
\* C15
\* ------------------------------------------------------------------------
\* the sync list that the pages of a level and a fetched snapshot give
UnionOf(g) == BuildUnion(pagesByParent(ctx.pages, log[g].key), 1, log[g].found)

\* the call at k is the one the entry of the sync list asks for
Classified(k, entry) ==
    /\ log[k].call = SyncCall(entry, log[k].key, log[k].parent, log[k].ok).call
    /\ log[k].path = SyncCall(entry, log[k].key, log[k].parent, log[k].ok).path
    /\ log[k].title = entry.title
    /\ log[k].call # "create" => log[k].id = entry.id

\* C15: every create, update and delete of a processLevel call follows the
\* one getChildPages call of that call, which returned, with nothing but
\* creates, updates and deletes of the same call in between, and it is the
\* call that the snapshot fetched by that getChildPages fixed for its place
\* in the sync list, and has that level's parent id.
C15_ReadThenDecide ==
    op = "sync" =>
        \A k \in LevelCalls(Mutating) :
            \E g \in 1..(k - 1) :
                /\ log[g].call = "getChildPages"
                /\ log[g].ok
                /\ log[g].key = log[k].key
                /\ \A m \in (g + 1)..(k - 1) :
                      log[m].call \in Mutating /\ log[m].key = log[k].key /\ log[m].ok
                /\ k - g <= Len(UnionOf(g))
                /\ Classified(k, UnionOf(g)[k - g])
                /\ log[k].call # "delete" => log[k].parent = log[g].id

\* C15 witness: a level whose snapshot held a page to update and a page to
\* delete, both done after the fetch
C15_Witness ==
    /\ op = "sync"
    /\ \E g \in Invocations :
          /\ Cardinality(log[g].found) >= 2
          /\ g + 2 <= Len(log)
          /\ \E a, b \in (g + 1)..Len(log) :
                /\ log[a].call = "update" /\ log[a].ok /\ log[a].key = log[g].key
                /\ log[b].call = "delete" /\ log[b].ok /\ log[b].key = log[g].key
                /\ a < b
                /\ \A m \in (g + 1)..b : log[m].call \in Mutating

\* ------------------------------------------------------------------------
\* C16
\* ------------------------------------------------------------------------
\* the getChildPages calls that may be the one of a processLevel call in
\* progress
FetchesOf(frame) ==
    {g \in Invocations :
        /\ log[g].ok
        /\ log[g].key = frame.parentKey
        /\ log[g].id = frame.parentPageId}

\* the places of the sync list that hold the local page / the remote page
PlacesOfLocal(union, localPage) ==
    {u \in DOMAIN union : union[u].hasLocal /\ union[u].localPage = localPage}
PlacesOfRemote(union, id) ==
    {u \in DOMAIN union : union[u].remote /\ union[u].id = id}

\* the sync list is a partition of the local pages and the fetched pages
Partition(union, pages, fetched) ==
    /\ \A n \in DOMAIN pages : Cardinality(PlacesOfLocal(union, pages[n])) = 1
    /\ \A r \in fetched : Cardinality(PlacesOfRemote(union, r.id)) = 1
    /\ \A u \in DOMAIN union :
          /\ union[u].hasLocal => \E n \in DOMAIN pages : union[u].localPage = pages[n]
          /\ union[u].remote => \E r \in fetched : union[u].id = r.id
          /\ union[u].hasLocal \/ union[u].remote
    /\ \A u, v \in DOMAIN union :
          (union[u].hasLocal /\ union[v].hasLocal
             /\ union[u].localPage = union[v].localPage) => u = v

\* the getChildPages call of the invocation that issued the call at k
InvocationOf(k) == CHOOSE g \in Invocations : g < k /\ \A h \in Invocations : h < k => h <= g

\* C16: in every processLevel call in progress that has fetched, each local
\* page of the level and each fetched remote child holds exactly one place
\* of the sync list, a place holds at most one remote page and one local
\* page, and no invocation issues an update and a delete for one remote page.
C16_LevelPartition ==
    (op = "sync" /\ pc = "levels") =>
        /\ \A n \in DOMAIN stack :
              stack[n].fetched =>
                  \E g \in FetchesOf(stack[n]) :
                      Partition(stack[n].union, stack[n].pages, log[g].found)
        /\ \A a, b \in LevelCalls(Mutating) :
              (InvocationOf(a) = InvocationOf(b) /\ log[a].call = "update"
                 /\ log[b].call = "delete") => log[a].id # log[b].id

\* C16 witness: a level in progress whose sync list holds a paired remote
\* page, a remote page without local page and an unmatched local page
C16_Witness ==
    /\ op = "sync"
    /\ pc = "levels"
    /\ stack # <<>>
    /\ Top.fetched
    /\ Top.i > 1
    /\ \E u, v, w \in DOMAIN Top.union :
          /\ Top.union[u].remote /\ Top.union[u].hasLocal
          /\ Top.union[v].remote /\ ~Top.union[v].hasLocal
          /\ ~Top.union[w].remote

\* ------------------------------------------------------------------------
\* C17
\* ------------------------------------------------------------------------
\* the context of the state is the one getContext builds from nav and files
ContextBuilt == runs > 0 /\ ~edited /\ ~ctx.thrown

\* the sections of a nav in the depth-first order of traverse's visits,
\* each with the section that encloses it
RECURSIVE SectionVisits(_, _, _)
SectionVisits(items, i, parentSection) ==
    IF i > Len(items) THEN <<>>
    ELSE (IF items[i].kind = "section"
          THEN <<[name |-> items[i].title, parent |-> parentSection]>>
                 \o SectionVisits(items[i].items, 1, items[i].title)
          ELSE <<>>)
         \o SectionVisits(items, i + 1, parentSection)

\* the enclosing section at the first visit of the section name
FirstParent(visits, name) ==
    visits[CHOOSE v \in DOMAIN visits :
               /\ visits[v].name = name
               /\ \A w \in DOMAIN visits : visits[w].name = name => v <= w].parent

\* C17 (as claimed): the section hierarchy of a context holds exactly one
\* entry for every section name traverse visited, and its value is the
\* section that enclosed the name at its first visit.
C17_HierarchyFirstOccurrence ==
    ContextBuilt =>
        LET visits == SectionVisits(nav, 1, null)
            hier == ctx.sectionHierarchy
        IN  \A v \in DOMAIN visits :
                /\ Cardinality({k \in DOMAIN hier : hier[k].name = visits[v].name}) = 1
                /\ \A k \in DOMAIN hier :
                      hier[k].name = visits[v].name =>
                          hier[k].parent = FirstParent(visits, visits[v].name)

\* ------------------------------------------------------------------------
\* C18
\* ------------------------------------------------------------------------
\* the directory of a page's file below the docs directory
DirBelowDocs(page) == Dirname(Substring(page.path, Len(w_docs) + 1))

\* directory d is directory e or one above it, segment by segment
DirContains(d, e) == d = e \/ StartsWith(e, d \o sep)

\* the directories that contain the file of every child
SharedDirs(children) ==
    LET first == DirBelowDocs(children[1])
    IN  {d \in {JoinParts(first, len) : len \in 1..PartCount(first)} :
            \A k \in DOMAIN children : DirContains(d, DirBelowDocs(children[k]))}

\* the child pages of a section that createSectionPages hands over
ChildrenOf(name) == SelectSeq(NavPages, LAMBDA page : page.parentPath = name)

\* C18 (as claimed): for the children of every section that has children,
\* inferSectionDirectory returns none when no directory contains the files
\* of all of them, and else the longest directory that does, so that what
\* it returns contains the file of every child.
C18_LongestSharedDirectory ==
    ContextBuilt =>
        \A k \in DOMAIN ctx.sectionHierarchy :
            LET children == ChildrenOf(ctx.sectionHierarchy[k].name)
                dir == inferSectionDirectory(children)
            IN  Len(children) > 0 =>
                    /\ SharedDirs(children) = {} <=> dir = <<>>
                    /\ dir # <<>> =>
                          /\ dir \in SharedDirs(children)
                          /\ \A d \in SharedDirs(children) : Len(d) <= Len(dir)
                          /\ \A n \in DOMAIN children :
                                DirContains(dir, DirBelowDocs(children[n]))

\* ------------------------------------------------------------------------
\* C19
\* ------------------------------------------------------------------------
\* the lookups of the configured parent page, and the sync of the home page
AncestorLookups ==
    {k \in DOMAIN log : log[k].call = "findPage" /\ log[k].title # SiteName}
HomeSyncs ==
    {k \in DOMAIN log : log[k].key = NoLevel /\ log[k].call \in {"create", "update"}}

\* C19: when the lookup of the configured parent page returns no page, the
\* sync run fails with that lookup as its only remote call: no lookup of
\* the home page, no create, update or delete.  When no parent page is
\* configured, no lookup is made for it and the home page is synced
\* without parent id; else it is synced below the page the lookup returned.
C19_AncestorResolution ==
    op = "sync" =>
        /\ \A k \in AncestorLookups :
              /\ parentPage # ""
              /\ log[k].title = parentPage
              /\ k = 1
              /\ (log[k].ok /\ log[k].found = {}) =>
                    /\ pc = "idle"
                    /\ outcome = "failed"
                    /\ Len(log) = 1
                    /\ remote = before
        /\ parentPage = "" =>
              /\ AncestorLookups = {}
              /\ \A k \in HomeSyncs : log[k].parent = NoId
        /\ \A k \in HomeSyncs :
              AncestorLookups # {} => \E r \in log[1].found : log[k].parent = r.id

\* C19 witness: a sync run that failed because the configured parent page
\* is not in the remote store
C19_Witness ==
    /\ op = "sync"
    /\ parentPage = AncestorTitle
    /\ outcome = "failed"
    /\ Len(log) = 1
    /\ log[1].call = "findPage"
    /\ log[1].title = AncestorTitle
    /\ log[1].ok
    /\ log[1].found = {}

====
